---- MODULE Spec2Model ----
(***************************************************************************)
(* Model of the AI news monitor (src/ai_news_monitor.py): the sqlite-backed *)
(* store of sent articles, the fetch / filter / dedup / sort of the feeds,  *)
(* the notification fan-out (Pushover, webhook) and the two triggers that   *)
(* run process_new_articles: the scheduler thread and the HTTP handler of   *)
(* /api/check-news.                                                         *)
(*                                                                          *)
(* Text is a sequence of one-character strings, so that strip(), lower(),   *)
(* slicing, substring search and string comparison are computed as Python   *)
(* computes them.                                                           *)
(***************************************************************************)
EXTENDS Integers, Sequences, FiniteSets, TLC

(***************************************************************************)
(* Bounds of the model.                                                     *)
(***************************************************************************)
\* the runs of process_new_articles the triggers start
MaxRuns == 2

(***************************************************************************)
(* Text helpers (Python str operations).                                    *)
(***************************************************************************)
\* the characters the model's texts use, in code point order
CodePoints ==
    <<" ", ",", "-", "/", "0", "1", "2", "3", "4", "5", "6", "7", "8", "9", ":",
      "A", "B", "C", "D", "I", "L", "M", "O", "T",
      "a", "b", "c", "d", "e", "g", "i", "k", "l", "m", "n", "o", "p", "r",
      "t", "u", "x", "y">>

Ord(c) == CHOOSE k \in 1..Len(CodePoints) : CodePoints[k] = c

UpperCase == <<"A", "B", "C", "D", "I", "L", "M", "O", "T">>
LowerCase == <<"a", "b", "c", "d", "i", "l", "m", "o", "t">>

\* str.lower() on one character
LowerChar(c) ==
    IF \E k \in 1..Len(UpperCase) : UpperCase[k] = c
    THEN LowerCase[CHOOSE k \in 1..Len(UpperCase) : UpperCase[k] = c]
    ELSE c

\* str.lower()
lower(s) == [k \in 1..Len(s) |-> LowerChar(s[k])]

Whitespace == {" "}

\* str.strip(): drop leading and trailing whitespace
strip(s) ==
    LET keep == {k \in 1..Len(s) : s[k] \notin Whitespace}
    IN  IF keep = {} THEN <<>>
        ELSE LET lo == CHOOSE k \in keep : \A j \in keep : k <= j
                 hi == CHOOSE k \in keep : \A j \in keep : k >= j
             IN  SubSeq(s, lo, hi)

\* s[:n]
Prefix(s, n) == SubSeq(s, 1, IF Len(s) < n THEN Len(s) ELSE n)

\* `kw in s`
Contains(s, kw) ==
    \E k \in 0..(Len(s) - Len(kw)) : SubSeq(s, k + 1, k + Len(kw)) = kw

\* s < t for Python strings: lexicographic by code point
StrLess(s, t) ==
    \E k \in 1..(Len(t)) :
        /\ k <= Len(s) + 1
        /\ \A j \in 1..(k - 1) : s[j] = t[j]
        /\ \/ k = Len(s) + 1
           \/ (k <= Len(s) /\ Ord(s[k]) < Ord(t[k]))

(***************************************************************************)
(* The feeds: what the external sources can serve.                          *)
(***************************************************************************)
\* AINewsMonitor.news_sources, in dict order (the first two of the five)
news_sources == <<"TechCrunch AI", "VentureBeat AI">>

\* AINewsMonitor.ai_keywords (those over the model's characters)
ai_keywords ==
    << <<"c","l","a","u","d","e">>, <<"o","p","e","n","a","i">>,
       <<"l","l","m">>, <<"a","i"," ","a","g","e","n","t">> >>

\* feed entries as feedparser yields them: title, summary, link, published
E1 == [title   |-> <<"L","L","M"," ","a">>, summary |-> <<"x">>,
       link    |-> <<"/","1">>,
       published |-> <<"2","0","2","4","-","0","1","-","0","2">>]
E2 == [title   |-> <<" ","O","p","e","n","A","I">>, summary |-> <<>>,
       link    |-> <<"/","2"," ">>,
       published |-> <<"2","0","2","4","-","0","1","-","0","5">>]
E3 == [title   |-> <<"b","o","t">>, summary |-> <<"a","n"," ","L","L","M">>,
       link    |-> <<"/","3">>,
       published |-> <<>>]
E4 == [title   |-> <<"C","l","a","u","d","e">>, summary |-> <<>>,
       link    |-> <<"/","4">>,
       published |-> <<"2","0","2","4","-","0","1","-","0","3">>]
\* not about AI
E5 == [title   |-> <<"b","r","e","a","d">>, summary |-> <<"b","a","k","e">>,
       link    |-> <<"/","5">>,
       published |-> <<"2","0","2","4","-","0","1","-","0","4">>]
\* no link
E6 == [title   |-> <<"l","l","m">>, summary |-> <<>>,
       link    |-> <<" ">>,
       published |-> <<>>]

SourceNames == {news_sources[k] : k \in 1..Len(news_sources)}

\* the contents the feeds can have when a run fetches them: one relevant
\* entry, listed by one source or by both
Feeds ==
    { [s \in SourceNames |->
          IF s = "TechCrunch AI" THEN <<E1>> ELSE <<E6, E1>>],
      [s \in SourceNames |->
          IF s = "TechCrunch AI" THEN <<E5, E2>> ELSE <<>>] }

\* the same with more relevant entries than one run notifies
LongFeeds ==
    { [s \in SourceNames |->
          IF s = "TechCrunch AI" THEN <<E1, E2, E3, E4>> ELSE <<E6, E1>>] }

\* entries for the fetch properties: E2 with other whitespace, summary and
\* date; a title and a link that concatenate as those of E1; dates in the
\* RFC 822 form of RSS feeds
E2b == [title   |-> <<"O","p","e","n","A","I"," ">>, summary |-> <<"y">>,
        link    |-> <<" ","/","2">>,
        published |-> <<"2","0","2","4","-","0","1","-","0","9">>]
E7 == [title   |-> <<"L","L","M"," ","a","/">>, summary |-> <<>>,
       link    |-> <<"1">>,
       published |-> <<"2","0","2","4","-","0","1","-","0","6">>]
R1 == [title   |-> <<"L","L","M"," ","b">>, summary |-> <<>>,
       link    |-> <<"/","8">>,
       published |-> <<"T","u","e",","," ","0","2">>]
R2 == [title   |-> <<"L","L","M"," ","c">>, summary |-> <<>>,
       link    |-> <<"/","9">>,
       published |-> <<"M","o","n",","," ","0","8">>]

\* the feeds of SpecFetch
FetchFeeds ==
    { [s \in SourceNames |->
          IF s = "TechCrunch AI" THEN <<E1>> ELSE <<E6, E1>>],
      [s \in SourceNames |->
          IF s = "TechCrunch AI" THEN <<E1, E2, E3>> ELSE <<E5, E2b>>],
      [s \in SourceNames |->
          IF s = "TechCrunch AI" THEN <<E1, E7>> ELSE <<E4>>],
      [s \in SourceNames |->
          IF s = "TechCrunch AI" THEN <<R1, R2>> ELSE <<E3>>] }
        \cup LongFeeds

(***************************************************************************)
(* Fetching: get_article_hash, fetch_news_from_source, fetch_all_news.      *)
(***************************************************************************)
\* hashlib.md5(...).hexdigest(): the digest stands for the bytes it digests
md5(bytes) == <<"md5", bytes>>


\* a fault: the inputs are not cleaned
get_article_hash_raw(title, url) == md5(title \o url)

\* clean_title + clean_url, digested
get_article_hash(title, url) == md5(strip(title) \o strip(url))

\* feed.entries[:5]
EntriesPerSource == 5
\* summary[:200] + '...'
SummaryLimit == 200


\* a fault: the keywords are looked for in the text as it is written
is_ai_related_cased(title, summary) ==
    LET content_to_check == title \o <<" ">> \o summary
    IN  \E k \in 1..Len(ai_keywords) : Contains(content_to_check, ai_keywords[k])

\* content_to_check = (title + " " + summary).lower(); `keyword in
\* content_to_check` for some keyword
is_ai_related(title, summary) ==
    LET content_to_check == lower(title \o <<" ">> \o summary)
    IN  \E k \in 1..Len(ai_keywords) : Contains(content_to_check, ai_keywords[k])

\* the article dict of one entry, or <<>> when the entry is skipped
ArticleOf(source_name, entry) ==
    LET title   == strip(entry.title)
        summary == strip(entry.summary)
        link    == strip(entry.link)
    IN  IF title = <<>> \/ link = <<>> THEN <<>>
        ELSE IF ~is_ai_related(title, summary) THEN <<>>
        ELSE << [title     |-> title,
                 url       |-> link,
                 source    |-> source_name,
                 published |-> entry.published,
                 summary   |-> IF Len(summary) > SummaryLimit
                               THEN Prefix(summary, SummaryLimit) \o <<".", ".", ".">>
                               ELSE summary,
                 hash      |-> get_article_hash(title, link)] >>

RECURSIVE ArticlesOf(_, _)
ArticlesOf(source_name, entries) ==
    IF entries = <<>> THEN <<>>
    ELSE ArticleOf(source_name, Head(entries)) \o ArticlesOf(source_name, Tail(entries))

\* fetch_news_from_source: failed is a parse error or any other exception
fetch_news_from_source(source_name, entries, failed) ==
    IF failed THEN <<>>
    ELSE ArticlesOf(source_name, Prefix(entries, EntriesPerSource))


\* a fault: a source that fails ends the loop over the sources
RECURSIVE FetchSources_abort(_, _, _)
FetchSources_abort(k, feed, failedSources) ==
    IF k > Len(news_sources) \/ news_sources[k] \in failedSources THEN <<>>
    ELSE fetch_news_from_source(news_sources[k], feed[news_sources[k]], FALSE)
         \o FetchSources_abort(k + 1, feed, failedSources)

\* the loop of fetch_all_news over news_sources, from the k-th on
RECURSIVE FetchSources(_, _, _)
FetchSources(k, feed, failedSources) ==
    IF k > Len(news_sources) THEN <<>>
    ELSE fetch_news_from_source(news_sources[k], feed[news_sources[k]],
                                news_sources[k] \in failedSources)
         \o FetchSources(k + 1, feed, failedSources)


\* a fault: no article is dropped
Unique_none(all_articles, seen) == all_articles

\* unique_articles: the first article of every hash, in order
RECURSIVE Unique(_, _)
Unique(all_articles, seen) ==
    IF all_articles = <<>> THEN <<>>
    ELSE LET a == Head(all_articles)
         IN  IF a.hash \in seen THEN Unique(Tail(all_articles), seen)
             ELSE <<a>> \o Unique(Tail(all_articles), seen \cup {a.hash})

\* datetime.now().isoformat(): a timestamp later than every published date
NowIso == <<"2","0","2","6">>

get_sort_key(article) ==
    IF article.published # <<>> THEN article.published ELSE NowIso

\* sorted(..., key=get_sort_key, reverse=True): descending and stable
RECURSIVE InsertDesc(_, _)
InsertDesc(sorted, a) ==
    IF sorted = <<>> THEN <<a>>
    ELSE IF StrLess(get_sort_key(Head(sorted)), get_sort_key(a))
         THEN <<a>> \o sorted
         ELSE <<Head(sorted)>> \o InsertDesc(Tail(sorted), a)

RECURSIVE SortDesc(_, _)
SortDesc(todo, sorted) ==
    IF todo = <<>> THEN sorted
    ELSE SortDesc(Tail(todo), InsertDesc(sorted, Head(todo)))

fetch_all_news(feed, failedSources) ==
    SortDesc(Unique(FetchSources(1, feed, failedSources), {}), <<>>)

(***************************************************************************)
(* State.                                                                   *)
(***************************************************************************)
\* the threads that call process_new_articles: run_scheduler's
\* safe_news_check and the Flask handler check_news
Threads == {"scheduler", "request"}

\* requests' answer to a transport call: an HTTP status, 0 for an exception
\* (connection error, timeout)
Responses == {0, 200, 201, 202, 204, 500}

\* the batch cap: new_articles[:3]
BatchCap == 3

VARIABLES
    env,               \* os.environ: which of the settings are present
    init_pc,           \* __main__ constructing the monitor
    news_monitor,      \* the global: FALSE is None
    conn,              \* self.conn: "unset", "file", "memory" or "None"
    pushover_token, pushover_user, webhook_url,
    sent_articles,     \* the rows of table sent_articles seen through conn
    db_lock,           \* self._db_lock: the thread inside, or "free"
    runs,              \* the runs started so far
    pc,                \* position of every thread in process_new_articles
    articles,          \* local: the fetched articles
    new_articles,      \* local: the articles found new
    idx,               \* local: position of the running for loop
    notification_sent, \* local: flag of the article being delivered
    notifications_sent,\* local: counter of the articles sent and marked
    \* history of the run and of the deliveries
    outcome,           \* per transport, for the article last delivered
    last_call,         \* the last call of a store operation, per thread
    attempted,         \* hashes a transport was called for in this run
    added,             \* rows this run inserted
    known,             \* SpecSerial: delivered, as it was when the run started
    delivered,         \* hashes some transport reported success for
    undelivered,       \* hashes no fan-out had a success for
    store_failed,      \* some store operation raised
    persist_failed,    \* creating ai_news.db failed
    http_response,     \* what check_news answered, until the next run starts
    fetch_in,          \* SpecFetch: what the sources served to the run
    caught,            \* SpecRaise: the articles the run caught an exception
                       \* at (NoHash: outside the loops)
    listing,           \* what get_recent_articles returned last
    test_result,       \* what test_notification did last
    scheduler,         \* position of the thread running run_scheduler
    monitors,          \* the AINewsMonitor instances created so far
    lazy_pc            \* SpecLazy: position of every request handler

vars == <<env, init_pc, news_monitor, conn, pushover_token, pushover_user,
          webhook_url, sent_articles, db_lock, runs,
          pc, articles, new_articles, idx, notification_sent,
          notifications_sent,
          outcome, last_call, attempted, added, known, delivered,
          undelivered, store_failed, persist_failed,
          http_response, fetch_in, caught,
          listing, test_result, scheduler, monitors, lazy_pc>>

monitorVars == <<env, init_pc, news_monitor, conn, pushover_token,
                 pushover_user, webhook_url, persist_failed>>
localVars   == <<pc, articles, new_articles, idx, notification_sent,
                 notifications_sent, runs>>
ghostVars   == <<outcome, last_call, attempted, added, known, delivered,
                 undelivered, store_failed>>
ioVars      == <<http_response, fetch_in, caught>>
controlVars == <<listing, test_result, scheduler, monitors, lazy_pc>>

\* the settings a deployment can have
Environments ==
    { [PUSHOVER_TOKEN |-> TRUE,  PUSHOVER_USER |-> TRUE,  WEBHOOK_URL |-> TRUE],
      [PUSHOVER_TOKEN |-> TRUE,  PUSHOVER_USER |-> TRUE,  WEBHOOK_URL |-> FALSE],
      [PUSHOVER_TOKEN |-> TRUE,  PUSHOVER_USER |-> FALSE, WEBHOOK_URL |-> TRUE],
      [PUSHOVER_TOKEN |-> FALSE, PUSHOVER_USER |-> FALSE, WEBHOOK_URL |-> FALSE] }

NoHash == <<>>
NoOutcome == [item |-> NoHash, pushover |-> "pending", webhook |-> "pending"]
NoCall == [op |-> "none", article_hash |-> NoHash, failure |-> "none",
           returned |-> FALSE]
NoResponse == [status |-> 0, success |-> FALSE, new_articles |-> 0]
NoFetch == [feed |-> <<>>, failed |-> {}]

\* the request handlers that can run at the same time
Handlers == {"get_articles", "check_news"}

NoListing == [served |-> FALSE, articles |-> <<>>]
NoTest == [served |-> FALSE,
           pushover_called |-> FALSE, pushover |-> 0, pushover_ok |-> FALSE,
           webhook_called |-> FALSE, webhook |-> 0, webhook_ok |-> FALSE,
           success |-> FALSE]

\* the state when the module is loaded; start is "init_database" when it is
\* run as __main__ and "imported" when a WSGI server imports it
Loaded(start) ==
    /\ env \in Environments
    /\ init_pc = start
    /\ news_monitor = FALSE
    /\ conn = "unset"
    /\ pushover_token = FALSE
    /\ pushover_user = FALSE
    /\ webhook_url = FALSE
    /\ sent_articles = {}
    /\ db_lock = "free"
    /\ runs = 0
    /\ pc = [t \in Threads |-> "idle"]
    /\ articles = [t \in Threads |-> <<>>]
    /\ new_articles = [t \in Threads |-> <<>>]
    /\ idx = [t \in Threads |-> 0]
    /\ notification_sent = [t \in Threads |-> FALSE]
    /\ notifications_sent = [t \in Threads |-> 0]
    /\ outcome = [t \in Threads |-> NoOutcome]
    /\ last_call = [t \in Threads |-> NoCall]
    /\ attempted = [t \in Threads |-> {}]
    /\ added = [t \in Threads |-> 0]
    /\ known = [t \in Threads |-> {}]
    /\ delivered = {}
    /\ undelivered = {}
    /\ store_failed = FALSE
    /\ persist_failed = FALSE
    /\ http_response = NoResponse
    /\ fetch_in = [t \in Threads |-> NoFetch]
    /\ caught = [t \in Threads |-> {}]
    /\ listing = NoListing
    /\ test_result = NoTest
    /\ scheduler = "not_started"
    /\ monitors = 0
    /\ lazy_pc = [h \in Handlers |-> "idle"]

Init == Loaded("init_database")

(***************************************************************************)
(* AINewsMonitor.__init__ and init_database, run by __main__.               *)
(***************************************************************************)
\* sqlite3.connect('ai_news.db') and CREATE TABLE IF NOT EXISTS
InitDatabaseOk ==
    /\ init_pc = "init_database"
    /\ conn' = "file"
    /\ init_pc' = "attributes"
    /\ UNCHANGED <<env, news_monitor, pushover_token, pushover_user,
                   webhook_url, persist_failed>>
    /\ UNCHANGED <<sent_articles, db_lock, localVars, ghostVars, ioVars, controlVars>>


\* a fault: no fallback, the error leaves __init__
InitDatabaseError_raise ==
    /\ init_pc = "init_database"
    /\ persist_failed' = TRUE
    /\ init_pc' = "failed"
    /\ UNCHANGED <<env, news_monitor, conn, pushover_token, pushover_user,
                   webhook_url>>
    /\ UNCHANGED <<sent_articles, db_lock, localVars, ghostVars, ioVars, controlVars>>

\* the same raising: the except branch is entered
InitDatabaseError ==
    /\ init_pc = "init_database"
    /\ persist_failed' = TRUE
    /\ init_pc' = "fallback"
    /\ UNCHANGED <<env, news_monitor, conn, pushover_token, pushover_user,
                   webhook_url>>
    /\ UNCHANGED <<sent_articles, db_lock, localVars, ghostVars, ioVars, controlVars>>

\* sqlite3.connect(':memory:') and CREATE TABLE
FallbackOk ==
    /\ init_pc = "fallback"
    /\ conn' = "memory"
    /\ init_pc' = "attributes"
    /\ UNCHANGED <<env, news_monitor, pushover_token, pushover_user,
                   webhook_url, persist_failed>>
    /\ UNCHANGED <<sent_articles, db_lock, localVars, ghostVars, ioVars, controlVars>>

\* the fallback raising too: self.conn = None
FallbackError ==
    /\ init_pc = "fallback"
    /\ conn' = "None"
    /\ init_pc' = "attributes"
    /\ UNCHANGED <<env, news_monitor, pushover_token, pushover_user,
                   webhook_url, persist_failed>>
    /\ UNCHANGED <<sent_articles, db_lock, localVars, ghostVars, ioVars, controlVars>>

\* the rest of __init__, then news_monitor = AINewsMonitor() and the start
\* of the scheduler thread and of the Flask app
Construct ==
    /\ init_pc = "attributes"
    /\ pushover_token' = env.PUSHOVER_TOKEN
    /\ pushover_user' = env.PUSHOVER_USER
    /\ webhook_url' = env.WEBHOOK_URL
    /\ news_monitor' = TRUE
    /\ init_pc' = "serving"
    /\ monitors' = monitors + 1
    /\ scheduler' = "running"
    /\ UNCHANGED <<env, conn, persist_failed>>
    /\ UNCHANGED <<sent_articles, db_lock, localVars, ghostVars, ioVars>>
    /\ UNCHANGED <<listing, test_result, lazy_pc>>

(***************************************************************************)
(* The store: is_article_sent and mark_article_sent.  A call can fail with  *)
(* "no_conn" (self.conn is None), "error" (the cursor or the statement      *)
(* raises) or, for an insert, "commit_error" (commit() raises after the     *)
(* INSERT was executed).                                                    *)
(***************************************************************************)
\* SELECT 1 FROM sent_articles WHERE article_hash = ?
HasRow(rows, article_hash) == \E r \in rows : r.article_hash = article_hash


\* a fault: the lookup never finds the row
is_article_sent_never(rows, article_hash, failure) == FALSE

\* a fault: a failed lookup answers "sent"
is_article_sent_closed(rows, article_hash, failure) ==
    IF failure = "none" THEN HasRow(rows, article_hash) ELSE TRUE

\* what is_article_sent returns
is_article_sent(rows, article_hash, failure) ==
    IF failure = "none" THEN HasRow(rows, article_hash) ELSE FALSE


\* a fault: INSERT OR REPLACE
InsertOrReplace(rows, article_hash, title, source, now, url) ==
    {r \in rows : r.article_hash # article_hash}
        \cup {[article_hash |-> article_hash, title |-> title,
               source |-> source, sent_at |-> now, url |-> url]}

\* INSERT OR IGNORE INTO sent_articles ...: article_hash is UNIQUE
InsertOrIgnore(rows, article_hash, title, source, now, url) ==
    IF HasRow(rows, article_hash) THEN rows
    ELSE rows \cup {[article_hash |-> article_hash, title |-> title,
                     source |-> source, sent_at |-> now, url |-> url]}

\* what mark_article_sent returns
mark_article_sent(failure) == failure = "none"

\* the rows conn sees after mark_article_sent: a row inserted before
\* commit() raised stays in the open transaction of conn
RowsAfterMark(rows, article, now, failure) ==
    IF failure \in {"none", "commit_error"}
    THEN InsertOrIgnore(rows, article.hash, article.title, article.source,
                        now, article.url)
    ELSE rows

\* history: the call of a store operation that just ended
Called(t, op, article_hash, failure, returned) ==
    /\ last_call' = [last_call EXCEPT ![t] =
           [op |-> op, article_hash |-> article_hash, failure |-> failure,
            returned |-> returned]]
    /\ store_failed' = (store_failed \/ failure \in {"error", "commit_error"})

(***************************************************************************)
(* process_new_articles, one step per blocking call or lock operation.      *)
(***************************************************************************)

\* a fault: the loop runs over all of new_articles
Batch_all(new) == new

\* new_articles[:3]
Batch(new) == Prefix(new, BatchCap)

\* the article the loop of thread t is at
CheckedArticle(t) == articles[t][idx[t]]
CurrentArticle(t) == Batch(new_articles[t])[idx[t]]

\* process_new_articles is entered; seen is what the history of the run
\* keeps of the deliveries before it
StartRun(t, seen) ==
    /\ news_monitor
    /\ pc[t] = "idle"
    /\ runs < MaxRuns
    /\ runs' = runs + 1
    /\ pc' = [pc EXCEPT ![t] = "fetching"]
    /\ known' = [known EXCEPT ![t] = seen]
    /\ UNCHANGED <<articles, new_articles, idx, notification_sent,
                   notifications_sent>>
    /\ UNCHANGED <<outcome, last_call, attempted, added, delivered,
                   undelivered, store_failed>>
    /\ http_response' = NoResponse
    /\ UNCHANGED <<monitorVars, controlVars, fetch_in, caught, sent_articles, db_lock>>

\* safe_news_check (scheduler) or check_news (request) calls
\* process_new_articles, whatever the other thread is doing
Trigger(t) == StartRun(t, {})

\* the same when no run is active
TriggerSerial(t) ==
    /\ \A u \in Threads : pc[u] = "idle"
    /\ StartRun(t, delivered)

\* articles = self.fetch_all_news(); `if not articles: return []`
Fetched(t, feed, failedSources) ==
    LET fetched == fetch_all_news(feed, failedSources)
    IN  /\ pc[t] = "fetching"
        /\ articles' = [articles EXCEPT ![t] = fetched]
        /\ IF fetched = <<>>
           THEN /\ pc' = [pc EXCEPT ![t] = "returning"]
                /\ idx' = [idx EXCEPT ![t] = 0]
           ELSE /\ pc' = [pc EXCEPT ![t] = "checking"]
                /\ idx' = [idx EXCEPT ![t] = 1]
        /\ new_articles' = [new_articles EXCEPT ![t] = <<>>]
        /\ UNCHANGED <<notification_sent, notifications_sent, runs>>
        /\ UNCHANGED <<monitorVars, controlVars, http_response, caught, sent_articles,
                       db_lock, ghostVars>>

\* the sources serve one of feeds, and any of them can fail
FetchFrom(t, feeds) ==
    /\ \E feed \in feeds, failedSources \in SUBSET SourceNames :
         Fetched(t, feed, failedSources)
    /\ UNCHANGED fetch_in

Fetch(t) == FetchFrom(t, Feeds)

FetchLong(t) == FetchFrom(t, LongFeeds)

\* the sources keep serving LongFeeds and none fails
FetchListed(t) ==
    /\ \E feed \in LongFeeds : Fetched(t, feed, {})
    /\ UNCHANGED fetch_in

\* the same over FetchFeeds, with the history of what the sources served
FetchRecorded(t) ==
    \E feed \in FetchFeeds, failedSources \in SUBSET SourceNames :
        /\ Fetched(t, feed, failedSources)
        /\ fetch_in' = [fetch_in EXCEPT ![t] =
               [feed |-> feed, failed |-> failedSources]]

\* `if article_hash and not self.is_article_sent(article_hash):
\*      new_articles.append(article)`, then the next article or the
\* notification loop
CheckDone(t, is_sent) ==
    LET new == IF is_sent THEN new_articles[t]
               ELSE Append(new_articles[t], CheckedArticle(t))
    IN  /\ new_articles' = [new_articles EXCEPT ![t] = new]
        /\ IF idx[t] < Len(articles[t])
           THEN /\ pc' = [pc EXCEPT ![t] = "checking"]
                /\ idx' = [idx EXCEPT ![t] = idx[t] + 1]
           ELSE IF new = <<>>
           THEN /\ pc' = [pc EXCEPT ![t] = "returning"]
                /\ idx' = [idx EXCEPT ![t] = 0]
           ELSE /\ pc' = [pc EXCEPT ![t] = "pushover"]
                /\ idx' = [idx EXCEPT ![t] = 1]
        /\ UNCHANGED <<articles, notification_sent, notifications_sent, runs>>

\* the end of a call of is_article_sent
IsSentReturn(t, failure) ==
    LET is_sent == is_article_sent(sent_articles, CheckedArticle(t).hash, failure)
    IN  /\ CheckDone(t, is_sent)
        /\ Called(t, "is_article_sent", CheckedArticle(t).hash, failure, is_sent)
        /\ UNCHANGED <<outcome, attempted, added, known, delivered, undelivered>>
        /\ UNCHANGED <<monitorVars, controlVars, ioVars, sent_articles>>

\* is_article_sent: `if not self.conn: return False`
IsSentNoConn(t) ==
    /\ pc[t] = "checking"
    /\ conn = "None"
    /\ IsSentReturn(t, "no_conn")
    /\ UNCHANGED db_lock


\* a fault: the lookup does not wait for the lock
IsSentLock_nolock(t) ==
    /\ pc[t] = "checking"
    /\ conn # "None"
    /\ db_lock' = t
    /\ pc' = [pc EXCEPT ![t] = "is_sent_locked"]
    /\ last_call' = [last_call EXCEPT ![t] = NoCall]
    /\ UNCHANGED <<articles, new_articles, idx, notification_sent,
                   notifications_sent, runs>>
    /\ UNCHANGED <<outcome, attempted, added, known, delivered, undelivered,
                   store_failed>>
    /\ UNCHANGED <<monitorVars, controlVars, ioVars, sent_articles>>

\* is_article_sent: `with self._db_lock:`
IsSentLock(t) ==
    /\ pc[t] = "checking"
    /\ conn # "None"
    /\ db_lock = "free"
    /\ db_lock' = t
    /\ pc' = [pc EXCEPT ![t] = "is_sent_locked"]
    /\ last_call' = [last_call EXCEPT ![t] = NoCall]
    /\ UNCHANGED <<articles, new_articles, idx, notification_sent,
                   notifications_sent, runs>>
    /\ UNCHANGED <<outcome, attempted, added, known, delivered, undelivered,
                   store_failed>>
    /\ UNCHANGED <<monitorVars, controlVars, ioVars, sent_articles>>

\* is_article_sent: the SELECT; `return result is not None`
IsSentQuery(t) ==
    /\ pc[t] = "is_sent_locked"
    /\ db_lock' = "free"
    /\ IsSentReturn(t, "none")

\* is_article_sent: the cursor or the SELECT raises; `return False`
IsSentError(t) ==
    /\ pc[t] = "is_sent_locked"
    /\ db_lock' = "free"
    /\ IsSentReturn(t, "error")

(***************************************************************************)
(* The notification loop: `for article in new_articles[:3]`.                *)
(***************************************************************************)
\* send_pushover_notification: True iff configured and the status is 200
send_pushover_notification(response) ==
    /\ pushover_token /\ pushover_user
    /\ response = 200


\* a fault: the webhook takes 200 only, as Pushover does
send_webhook_notification_200(response) ==
    /\ webhook_url
    /\ response = 200

\* send_webhook_notification: True iff configured and the status is one of
\* 200, 201, 202, 204
send_webhook_notification(response) ==
    /\ webhook_url
    /\ response \in {200, 201, 202, 204}


\* a fault: the flag asks for every transport to succeed
AnySent_all(sent_before, ok) == sent_before /\ ok

\* `if self.send_..._notification(...): notification_sent = True`
AnySent(sent_before, ok) == sent_before \/ ok

\* history: what a transport call for article_hash adds
Sent(t, article_hash, ok) ==
    /\ attempted' = [attempted EXCEPT ![t] = @ \cup {article_hash}]
    /\ delivered' = IF ok THEN delivered \cup {article_hash} ELSE delivered

\* history: the fan-out of article_hash ended with or without a success
FanOutDone(article_hash, any_sent, deliveredNow) ==
    undelivered' = IF any_sent \/ article_hash \in deliveredNow
                   THEN undelivered \ {article_hash}
                   ELSE undelivered \cup {article_hash}

\* `notification_sent = False`, then `if self.pushover_token and
\* self.pushover_user:` with the call of send_pushover_notification
PushoverSend(t) ==
    /\ pc[t] = "pushover"
    /\ pushover_token /\ pushover_user
    /\ \E response \in Responses :
         LET ok == send_pushover_notification(response)
         IN  /\ notification_sent' =
                    [notification_sent EXCEPT ![t] = AnySent(FALSE, ok)]
             /\ outcome' = [outcome EXCEPT ![t] =
                    [item     |-> CurrentArticle(t).hash,
                     pushover |-> IF ok THEN "success" ELSE "failed",
                     webhook  |-> "pending"]]
             /\ Sent(t, CurrentArticle(t).hash, ok)
    /\ pc' = [pc EXCEPT ![t] = "webhook"]
    /\ UNCHANGED <<articles, new_articles, idx, notifications_sent, runs>>
    /\ UNCHANGED <<last_call, added, known, undelivered, store_failed>>
    /\ UNCHANGED <<monitorVars, controlVars, ioVars, sent_articles, db_lock>>

\* Pushover is not configured: no call
PushoverSkip(t) ==
    /\ pc[t] = "pushover"
    /\ ~(pushover_token /\ pushover_user)
    /\ notification_sent' = [notification_sent EXCEPT ![t] = FALSE]
    /\ outcome' = [outcome EXCEPT ![t] =
           [item     |-> CurrentArticle(t).hash,
            pushover |-> "skipped-not-configured",
            webhook  |-> "pending"]]
    /\ pc' = [pc EXCEPT ![t] = "webhook"]
    /\ UNCHANGED <<articles, new_articles, idx, notifications_sent, runs>>
    /\ UNCHANGED <<last_call, attempted, added, known, delivered, undelivered,
                   store_failed>>
    /\ UNCHANGED <<monitorVars, controlVars, ioVars, sent_articles, db_lock>>

\* `if self.webhook_url:` with the call of send_webhook_notification
WebhookSend(t) ==
    /\ pc[t] = "webhook"
    /\ webhook_url
    /\ \E response \in Responses :
         LET ok == send_webhook_notification(response)
             any_sent == AnySent(notification_sent[t], ok)
         IN  /\ notification_sent' = [notification_sent EXCEPT ![t] = any_sent]
             /\ outcome' = [outcome EXCEPT ![t].webhook =
                               IF ok THEN "success" ELSE "failed"]
             /\ Sent(t, CurrentArticle(t).hash, ok)
             /\ FanOutDone(CurrentArticle(t).hash, any_sent, delivered)
    /\ pc' = [pc EXCEPT ![t] = "mark"]
    /\ UNCHANGED <<articles, new_articles, idx, notifications_sent, runs>>
    /\ UNCHANGED <<last_call, added, known, store_failed>>
    /\ UNCHANGED <<monitorVars, controlVars, ioVars, sent_articles, db_lock>>

\* the webhook is not configured: no call
WebhookSkip(t) ==
    /\ pc[t] = "webhook"
    /\ ~webhook_url
    /\ outcome' = [outcome EXCEPT ![t].webhook = "skipped-not-configured"]
    /\ FanOutDone(CurrentArticle(t).hash, notification_sent[t], delivered)
    /\ pc' = [pc EXCEPT ![t] = "mark"]
    /\ UNCHANGED <<articles, new_articles, idx, notification_sent,
                   notifications_sent, runs>>
    /\ UNCHANGED <<last_call, attempted, added, known, delivered, store_failed>>
    /\ UNCHANGED <<monitorVars, controlVars, ioVars, sent_articles, db_lock>>


\* a fault: mark_article_sent is called whether or not a notification was sent
ShouldMark_always(any_sent) == TRUE

\* `if notification_sent:` decides whether mark_article_sent is called
ShouldMark(any_sent) == any_sent

\* time.sleep(2), then the next article of new_articles[:3] or the return
NextItem(t) ==
    /\ IF idx[t] < Len(Batch(new_articles[t]))
       THEN /\ pc' = [pc EXCEPT ![t] = "pushover"]
            /\ idx' = [idx EXCEPT ![t] = idx[t] + 1]
       ELSE /\ pc' = [pc EXCEPT ![t] = "returning"]
            /\ idx' = [idx EXCEPT ![t] = 0]
    /\ UNCHANGED <<articles, new_articles, notification_sent, runs>>

\* no notification was sent: the article is not marked
MarkSkip(t) ==
    /\ pc[t] = "mark"
    /\ ~ShouldMark(notification_sent[t])
    /\ NextItem(t)
    /\ UNCHANGED notifications_sent
    /\ UNCHANGED <<monitorVars, controlVars, ioVars, sent_articles, db_lock, ghostVars>>

\* datetime.now(): the time advances when a run starts
Now == runs

\* the end of a call of mark_article_sent: `notifications_sent += 1` when
\* it returned True
MarkReturn(t, failure) ==
    LET rows == RowsAfterMark(sent_articles, CurrentArticle(t), Now, failure)
        returned == mark_article_sent(failure)
    IN  /\ sent_articles' = rows
        /\ notifications_sent' = [notifications_sent EXCEPT ![t] =
                                     IF returned THEN @ + 1 ELSE @]
        /\ added' = [added EXCEPT ![t] = IF rows = sent_articles THEN @ ELSE @ + 1]
        /\ Called(t, "mark_article_sent", CurrentArticle(t).hash, failure, returned)
        /\ NextItem(t)
        /\ UNCHANGED <<outcome, attempted, known, delivered, undelivered>>
        /\ UNCHANGED <<monitorVars, controlVars, ioVars>>

\* mark_article_sent: `if not self.conn: return False`
MarkNoConn(t) ==
    /\ pc[t] = "mark"
    /\ ShouldMark(notification_sent[t])
    /\ conn = "None"
    /\ MarkReturn(t, "no_conn")
    /\ UNCHANGED db_lock

\* mark_article_sent: `with self._db_lock:`
MarkLock(t) ==
    /\ pc[t] = "mark"
    /\ ShouldMark(notification_sent[t])
    /\ conn # "None"
    /\ db_lock = "free"
    /\ db_lock' = t
    /\ pc' = [pc EXCEPT ![t] = "mark_locked"]
    /\ last_call' = [last_call EXCEPT ![t] = NoCall]
    /\ UNCHANGED <<articles, new_articles, idx, notification_sent,
                   notifications_sent, runs>>
    /\ UNCHANGED <<outcome, attempted, added, known, delivered, undelivered,
                   store_failed>>
    /\ UNCHANGED <<monitorVars, controlVars, ioVars, sent_articles>>

\* mark_article_sent: INSERT OR IGNORE and commit; `return True`
MarkInsert(t) ==
    /\ pc[t] = "mark_locked"
    /\ db_lock' = "free"
    /\ MarkReturn(t, "none")

\* mark_article_sent: the cursor or the INSERT raises; `return False`
MarkInsertError(t) ==
    /\ pc[t] = "mark_locked"
    /\ db_lock' = "free"
    /\ MarkReturn(t, "error")

\* mark_article_sent: the INSERT is executed and commit() raises;
\* `return False`
MarkCommitError(t) ==
    /\ pc[t] = "mark_locked"
    /\ db_lock' = "free"
    /\ MarkReturn(t, "commit_error")


\* a fault: only the notified articles are returned
ReturnValue_batch(new) == Batch(new)

\* `return new_articles` (`return []` when nothing was fetched)
ReturnValue(new) == new

\* check_news: the answer to POST /api/check-news
check_news(returned) ==
    [status |-> 200, success |-> TRUE, new_articles |-> Len(returned)]

\* process_new_articles returns: the locals of the run are gone, the
\* request handler answers and safe_news_check drops the value
Return(t) ==
    /\ pc[t] = "returning"
    /\ pc' = [pc EXCEPT ![t] = "idle"]
    /\ articles' = [articles EXCEPT ![t] = <<>>]
    /\ new_articles' = [new_articles EXCEPT ![t] = <<>>]
    /\ notification_sent' = [notification_sent EXCEPT ![t] = FALSE]
    /\ notifications_sent' = [notifications_sent EXCEPT ![t] = 0]
    /\ outcome' = [outcome EXCEPT ![t] = NoOutcome]
    /\ last_call' = [last_call EXCEPT ![t] = NoCall]
    /\ attempted' = [attempted EXCEPT ![t] = {}]
    /\ added' = [added EXCEPT ![t] = 0]
    /\ known' = [known EXCEPT ![t] = {}]
    /\ http_response' = IF t = "request"
                        THEN check_news(ReturnValue(new_articles[t]))
                        ELSE http_response
    /\ fetch_in' = [fetch_in EXCEPT ![t] = NoFetch]
    /\ caught' = [caught EXCEPT ![t] = {}]
    /\ UNCHANGED <<idx, runs, delivered, undelivered, store_failed>>
    /\ UNCHANGED <<monitorVars, controlVars, sent_articles, db_lock>>

(***************************************************************************)
(* The other request handlers: get_articles (get_recent_articles) and       *)
(* test_notification.  listing and test_result are the locals of the        *)
(* handler, until it answers.                                               *)
(***************************************************************************)
\* `return articles[:20]`
ListLimit == 20

\* `article['sent'] = self.is_article_sent(article_hash)`; failure is kept
\* as history
Annotated(article, failure) ==
    [hash    |-> article.hash,
     sent    |-> is_article_sent(sent_articles, article.hash, failure),
     failure |-> failure]


\* a fault: the listing marks what it lists as sent
RowsAfterListing_mark(rows, fetched) ==
    rows \cup {[article_hash |-> fetched[k].hash, title |-> fetched[k].title,
                source |-> fetched[k].source, sent_at |-> Now,
                url |-> fetched[k].url] : k \in 1..Len(fetched)}

\* get_recent_articles reads the store and writes nothing
RowsAfterListing(rows, fetched) == rows

\* get_articles: get_recent_articles fetches, looks every article up under
\* the lock (any lookup can raise) and returns the first 20
GetRecentArticles ==
    /\ news_monitor
    /\ db_lock = "free"
    /\ \E feed \in Feeds \cup LongFeeds, failedSources \in SUBSET SourceNames :
         \E fetched \in {fetch_all_news(feed, failedSources)} :
             \E failing \in SUBSET {fetched[k].hash : k \in 1..Len(fetched)} :
               LET failure(h) == IF conn = "None" THEN "no_conn"
                                 ELSE IF h \in failing THEN "error"
                                 ELSE "none"
                   annotated == [k \in 1..Len(fetched) |->
                                    Annotated(fetched[k], failure(fetched[k].hash))]
               IN  /\ listing' = [served   |-> TRUE,
                                  articles |-> Prefix(annotated, ListLimit)]
                   /\ store_failed' =
                          (store_failed \/ (conn # "None" /\ failing # {}))
                   /\ sent_articles' = RowsAfterListing(sent_articles, fetched)
    /\ UNCHANGED <<monitorVars, ioVars, db_lock, localVars>>
    /\ UNCHANGED <<outcome, last_call, attempted, added, known, delivered,
                   undelivered>>
    /\ UNCHANGED <<test_result, scheduler, monitors, lazy_pc>>

\* test_notification: the test article goes through the configured
\* transports; mark_article_sent is not called
TestNotification ==
    /\ news_monitor
    /\ \E r1, r2 \in Responses :
         LET pushover_called == pushover_token /\ pushover_user
             webhook_called == webhook_url
             pushover_ok == pushover_called /\ send_pushover_notification(r1)
             webhook_ok == webhook_called /\ send_webhook_notification(r2)
         IN  test_result' =
                 [served          |-> TRUE,
                  pushover_called |-> pushover_called,
                  pushover        |-> IF pushover_called THEN r1 ELSE 0,
                  pushover_ok     |-> pushover_ok,
                  webhook_called  |-> webhook_called,
                  webhook         |-> IF webhook_called THEN r2 ELSE 0,
                  webhook_ok      |-> webhook_ok,
                  success         |-> AnySent(AnySent(FALSE, pushover_ok),
                                              webhook_ok)]
    /\ UNCHANGED <<monitorVars, ioVars, sent_articles, db_lock, localVars,
                   ghostVars>>
    /\ UNCHANGED <<listing, scheduler, monitors, lazy_pc>>

\* the handler answers: jsonify(...) of its locals
Answer ==
    /\ listing.served \/ test_result.served
    /\ listing' = NoListing
    /\ test_result' = NoTest
    /\ UNCHANGED <<monitorVars, ioVars, sent_articles, db_lock, localVars,
                   ghostVars>>
    /\ UNCHANGED <<scheduler, monitors, lazy_pc>>

(***************************************************************************)
(* run_scheduler: the jobs are registered and `while True:                  *)
(* schedule.run_pending(); time.sleep(60)` runs inside one try block;       *)
(* scheduler is "not_started", "running" (in the loop), "waiting" (in       *)
(* time.sleep(300) of the except branch) or "returned".                     *)
(***************************************************************************)
\* a job is due: run_pending calls safe_news_check, which calls
\* process_new_articles on the monitor
SchedulerTick ==
    /\ scheduler = "running"
    /\ Trigger("scheduler")

\* schedule.run_pending() or time.sleep(60) raises: `except Exception`,
\* the error is printed
SchedulerError ==
    /\ scheduler = "running"
    /\ pc["scheduler"] = "idle"
    /\ scheduler' = "waiting"
    /\ UNCHANGED <<monitorVars, ioVars, sent_articles, db_lock, localVars,
                   ghostVars>>
    /\ UNCHANGED <<listing, test_result, monitors, lazy_pc>>

\* time.sleep(300) ends: it is the last statement of run_scheduler, the
\* thread ends
SchedulerWaited ==
    /\ scheduler = "waiting"
    /\ scheduler' = "returned"
    /\ UNCHANGED <<monitorVars, ioVars, sent_articles, db_lock, localVars,
                   ghostVars>>
    /\ UNCHANGED <<listing, test_result, monitors, lazy_pc>>

(***************************************************************************)
(* The lazy initialisation at the head of every request handler, which      *)
(* matters when the module is imported by a WSGI server: __main__ is not    *)
(* run and news_monitor is None when the first requests arrive.             *)
(***************************************************************************)
\* `if not news_monitor:` is evaluated
HandlerEnter(h) ==
    /\ lazy_pc[h] = "idle"
    /\ lazy_pc' = [lazy_pc EXCEPT ![h] =
                      IF news_monitor THEN "ready" ELSE "constructing"]
    /\ UNCHANGED <<monitorVars, ioVars, sent_articles, db_lock, localVars,
                   ghostVars>>
    /\ UNCHANGED <<listing, test_result, scheduler, monitors>>

\* `news_monitor = AINewsMonitor()`: __init__ with init_database opening
\* ai_news.db, falling back to memory or ending with conn None; the rows
\* are those seen through the connection of the new instance
LazyConstruct(h) ==
    /\ lazy_pc[h] = "constructing"
    /\ \E c \in {"file", "memory", "None"} :
         /\ conn' = c
         /\ persist_failed' = (persist_failed \/ c # "file")
         /\ sent_articles' = IF c = "file" THEN sent_articles ELSE {}
    /\ pushover_token' = env.PUSHOVER_TOKEN
    /\ pushover_user' = env.PUSHOVER_USER
    /\ webhook_url' = env.WEBHOOK_URL
    /\ news_monitor' = TRUE
    /\ monitors' = monitors + 1
    /\ lazy_pc' = [lazy_pc EXCEPT ![h] = "ready"]
    /\ UNCHANGED <<env, init_pc>>
    /\ UNCHANGED <<ioVars, db_lock, localVars, ghostVars>>
    /\ UNCHANGED <<listing, test_result, scheduler>>

\* check_news goes on: news_monitor.process_new_articles()
HandlerRun ==
    /\ lazy_pc["check_news"] = "ready"
    /\ TriggerSerial("request")

\* the handler answers
HandlerDone(h) ==
    /\ lazy_pc[h] = "ready"
    /\ pc["request"] = "idle"
    /\ lazy_pc' = [lazy_pc EXCEPT ![h] = "idle"]
    /\ UNCHANGED <<monitorVars, ioVars, sent_articles, db_lock, localVars,
                   ghostVars>>
    /\ UNCHANGED <<listing, test_result, scheduler, monitors>>

(***************************************************************************)
(* Exceptions raised by the statements of process_new_articles themselves   *)
(* (SpecRaise): each is caught by the handler of the try block it is in.    *)
(***************************************************************************)
\* history: the run has caught an exception at the article article_hash
Caught(t, article_hash) ==
    /\ caught' = [caught EXCEPT ![t] = @ \cup {article_hash}]
    /\ UNCHANGED <<http_response, fetch_in>>

\* the body of the lookup loop raises: `except Exception: continue`, the
\* article is not appended
CheckRaise(t) ==
    /\ pc[t] = "checking"
    /\ CheckDone(t, TRUE)
    /\ Caught(t, CheckedArticle(t).hash)
    /\ UNCHANGED <<monitorVars, controlVars, sent_articles, db_lock, ghostVars>>


\* a fault: the handler is outside the loop, the exception ends it
ItemRaise_abort(t) ==
    /\ pc[t] \in {"pushover", "webhook", "mark"}
    /\ pc' = [pc EXCEPT ![t] = "returning"]
    /\ idx' = [idx EXCEPT ![t] = 0]
    /\ Caught(t, CurrentArticle(t).hash)
    /\ UNCHANGED <<articles, new_articles, notification_sent,
                   notifications_sent, runs>>
    /\ UNCHANGED <<monitorVars, controlVars, sent_articles, db_lock, ghostVars>>

\* the body of the notification loop raises: `except Exception: continue`
ItemRaise(t) ==
    /\ pc[t] \in {"pushover", "webhook", "mark"}
    /\ NextItem(t)
    /\ Caught(t, CurrentArticle(t).hash)
    /\ UNCHANGED notifications_sent
    /\ UNCHANGED <<monitorVars, controlVars, sent_articles, db_lock, ghostVars>>


\* a fault: no outer handler, the exception leaves process_new_articles
RunRaise_raise(t) ==
    /\ pc[t] \in {"fetching", "returning"}
    /\ pc' = [pc EXCEPT ![t] = "raised"]
    /\ Caught(t, NoHash)
    /\ UNCHANGED <<articles, new_articles, idx, notification_sent,
                   notifications_sent, runs>>
    /\ UNCHANGED <<monitorVars, controlVars, sent_articles, db_lock, ghostVars>>

\* fetch_all_news, or a statement after the loops, raises: the outer
\* `except Exception: return []`
RunRaise(t) ==
    /\ pc[t] \in {"fetching", "returning"}
    /\ pc' = [pc EXCEPT ![t] = "returning"]
    /\ articles' = [articles EXCEPT ![t] = <<>>]
    /\ new_articles' = [new_articles EXCEPT ![t] = <<>>]
    /\ idx' = [idx EXCEPT ![t] = 0]
    /\ Caught(t, NoHash)
    /\ UNCHANGED <<notification_sent, notifications_sent, runs>>
    /\ UNCHANGED <<monitorVars, controlVars, sent_articles, db_lock, ghostVars>>

(***************************************************************************)
(* Spec: the scheduler thread and the request handler run                   *)
(* process_new_articles on the one monitor in any interleaving, as the code *)
(* lets them.                                                               *)
(***************************************************************************)
Next ==
    \/ InitDatabaseOk
    \/ InitDatabaseError
    \/ FallbackOk
    \/ FallbackError
    \/ Construct
    \/ \E t \in Threads : Trigger(t)
    \/ \E t \in Threads : Fetch(t)
    \/ \E t \in Threads : IsSentNoConn(t)
    \/ \E t \in Threads : IsSentLock(t)
    \/ \E t \in Threads : IsSentQuery(t)
    \/ \E t \in Threads : IsSentError(t)
    \/ \E t \in Threads : PushoverSend(t)
    \/ \E t \in Threads : PushoverSkip(t)
    \/ \E t \in Threads : WebhookSend(t)
    \/ \E t \in Threads : WebhookSkip(t)
    \/ \E t \in Threads : MarkSkip(t)
    \/ \E t \in Threads : MarkNoConn(t)
    \/ \E t \in Threads : MarkLock(t)
    \/ \E t \in Threads : MarkInsert(t)
    \/ \E t \in Threads : MarkInsertError(t)
    \/ \E t \in Threads : MarkCommitError(t)
    \/ \E t \in Threads : Return(t)

Spec == Init /\ [][Next]_vars

(***************************************************************************)
(* SpecSerial: the runs follow one another (no trigger fires while a run is *)
(* active) and the feeds can list more relevant entries than one run        *)
(* notifies.                                                                *)
(***************************************************************************)
NextSerial ==
    \/ InitDatabaseOk
    \/ InitDatabaseError
    \/ FallbackOk
    \/ FallbackError
    \/ Construct
    \/ \E t \in Threads : TriggerSerial(t)
    \/ \E t \in Threads : Fetch(t)
    \/ \E t \in Threads : FetchLong(t)
    \/ \E t \in Threads : IsSentNoConn(t)
    \/ \E t \in Threads : IsSentLock(t)
    \/ \E t \in Threads : IsSentQuery(t)
    \/ \E t \in Threads : IsSentError(t)
    \/ \E t \in Threads : PushoverSend(t)
    \/ \E t \in Threads : PushoverSkip(t)
    \/ \E t \in Threads : WebhookSend(t)
    \/ \E t \in Threads : WebhookSkip(t)
    \/ \E t \in Threads : MarkSkip(t)
    \/ \E t \in Threads : MarkNoConn(t)
    \/ \E t \in Threads : MarkLock(t)
    \/ \E t \in Threads : MarkInsert(t)
    \/ \E t \in Threads : MarkInsertError(t)
    \/ \E t \in Threads : MarkCommitError(t)
    \/ \E t \in Threads : Return(t)

SpecSerial == Init /\ [][NextSerial]_vars

(***************************************************************************)
(* SpecRaise: Spec with the exceptions the try blocks of                    *)
(* process_new_articles catch.                                              *)
(***************************************************************************)
NextRaise ==
    \/ Next
    \/ \E t \in Threads : CheckRaise(t)
    \/ \E t \in Threads : ItemRaise(t)
    \/ \E t \in Threads : RunRaise(t)

SpecRaise == Init /\ [][NextRaise]_vars

(***************************************************************************)
(* SpecFetch: requests that follow one another over FetchFeeds, keeping     *)
(* what the sources served to the run; the store works.                     *)
(***************************************************************************)
\* the steps of a run after fetch_all_news
Proceed(t) ==
    \/ IsSentNoConn(t)
    \/ IsSentLock(t)
    \/ IsSentQuery(t)
    \/ IsSentError(t)
    \/ PushoverSend(t)
    \/ PushoverSkip(t)
    \/ WebhookSend(t)
    \/ WebhookSkip(t)
    \/ MarkSkip(t)
    \/ MarkNoConn(t)
    \/ MarkLock(t)
    \/ MarkInsert(t)
    \/ MarkInsertError(t)
    \/ MarkCommitError(t)
    \/ Return(t)

NextFetch ==
    \/ InitDatabaseOk
    \/ Construct
    \/ TriggerSerial("request")
    \/ FetchRecorded("request")
    \/ IsSentLock("request")
    \/ IsSentQuery("request")
    \/ PushoverSend("request")
    \/ WebhookSend("request")
    \/ MarkSkip("request")
    \/ MarkLock("request")
    \/ MarkInsert("request")
    \/ Return("request")

\* both transports are configured
InitFetch ==
    /\ Init
    /\ env.PUSHOVER_USER /\ env.WEBHOOK_URL

SpecFetch == InitFetch /\ [][NextFetch]_vars

(***************************************************************************)
(* SpecStall: SpecFetch with the progress the code has: a statement that    *)
(* can run does run, and requests.post(..., timeout=30) returns or raises   *)
(* within its timeout.  feedparser.parse(feed_url, request_headers=headers) *)
(* is given no timeout: nothing makes the fetch end.                        *)
(***************************************************************************)
SpecStall == SpecFetch /\ WF_vars(Proceed("request"))

(***************************************************************************)
(* SpecDrain: requests that follow one another while the sources keep       *)
(* listing the same entries, more than one run notifies; the store works    *)
(* and a transport call can fail.  A statement that can run does run, and   *)
(* a next request comes; nothing makes feedparser.parse return.             *)
(***************************************************************************)
\* the steps of SpecDrain but the fetch
DrainStep ==
    \/ InitDatabaseOk
    \/ Construct
    \/ TriggerSerial("request")
    \/ IsSentLock("request")
    \/ IsSentQuery("request")
    \/ PushoverSend("request")
    \/ WebhookSend("request")
    \/ MarkSkip("request")
    \/ MarkLock("request")
    \/ MarkInsert("request")
    \/ Return("request")

NextDrain ==
    \/ DrainStep
    \/ FetchListed("request")

SpecDrain == InitFetch /\ [][NextDrain]_vars /\ WF_vars(DrainStep)

(***************************************************************************)
(* SpecScheduler: the scheduler thread alone: its ticks, the runs they      *)
(* start and an error in its loop.                                          *)
(***************************************************************************)
NextScheduler ==
    \/ InitDatabaseOk
    \/ InitDatabaseError
    \/ FallbackOk
    \/ FallbackError
    \/ Construct
    \/ SchedulerTick
    \/ SchedulerError
    \/ SchedulerWaited
    \/ Fetch("scheduler")
    \/ Proceed("scheduler")

SpecScheduler == Init /\ [][NextScheduler]_vars

(***************************************************************************)
(* SpecLazy: the module imported by a WSGI server, two handlers serving     *)
(* requests at the same time.                                               *)
(***************************************************************************)
InitLazy == Loaded("imported")

NextLazy ==
    \/ \E h \in Handlers : HandlerEnter(h)
    \/ \E h \in Handlers : LazyConstruct(h)
    \/ \E h \in Handlers : HandlerDone(h)
    \/ HandlerRun
    \/ Fetch("request")
    \/ Proceed("request")

SpecLazy == InitLazy /\ [][NextLazy]_vars

(***************************************************************************)
(* SpecControl: the requests of one client, one after the other: runs over  *)
(* LongFeeds, listings and test notifications; the store can fail.          *)
(***************************************************************************)
\* no handler is running
NoRequest ==
    /\ \A u \in Threads : pc[u] = "idle"
    /\ ~listing.served
    /\ ~test_result.served

NextControl ==
    \/ InitDatabaseOk
    \/ InitDatabaseError
    \/ FallbackOk
    \/ FallbackError
    \/ Construct
    \/ NoRequest /\ TriggerSerial("request")
    \/ NoRequest /\ GetRecentArticles
    \/ NoRequest /\ TestNotification
    \/ Answer
    \/ FetchLong("request")
    \/ Proceed("request")
    \/ Return("request")

SpecControl == Init /\ [][NextControl]_vars

(***************************************************************************)
(* SpecIsolate: requests that follow one another over LongFeeds, with the   *)
(* exceptions the two loops of process_new_articles catch at the article    *)
(* they are at; the store works.                                            *)
(***************************************************************************)
NextIsolate ==
    \/ InitDatabaseOk
    \/ Construct
    \/ TriggerSerial("request")
    \/ FetchLong("request")
    \/ IsSentLock("request")
    \/ IsSentQuery("request")
    \/ PushoverSend("request")
    \/ WebhookSend("request")
    \/ MarkSkip("request")
    \/ MarkLock("request")
    \/ MarkInsert("request")
    \/ Return("request")
    \/ CheckRaise("request")
    \/ ItemRaise("request")

SpecIsolate == InitFetch /\ [][NextIsolate]_vars

TypeOK ==
    /\ conn \in {"unset", "file", "memory", "None"}
    /\ db_lock \in Threads \cup {"free"}
    /\ \A t \in Threads : idx[t] \in 0..Len(articles[t])

(***************************************************************************)
(* Properties.                                                              *)
(***************************************************************************)
StoredHashes == {r.article_hash : r \in sent_articles}

Successes(t) == {x \in {outcome[t].pushover, outcome[t].webhook} : x = "success"}

\* the checks of the run of t are done
PostCheck(t) == pc[t] \in {"pushover", "webhook", "mark", "mark_locked", "returning"}

\* C1: every fingerprint in the store belongs to an item some transport
\* reported success for, and mark_article_sent is only ever called for an
\* item whose fan-out had a success
C1_OnlyDeliveredRecorded ==
    /\ StoredHashes \subseteq delivered
    /\ \A t \in Threads :
         /\ pc[t] = "mark_locked" =>
               /\ outcome[t].item = CurrentArticle(t).hash
               /\ Successes(t) # {}
         /\ last_call[t].op = "mark_article_sent" =>
               last_call[t].article_hash \in delivered

\* a run recorded an item while another item had no success and stays out
C1_Witness ==
    /\ sent_articles # {}
    /\ undelivered # {}
    /\ \E t \in Threads : /\ last_call[t].op = "mark_article_sent"
                          /\ last_call[t].returned

\* C2: in runs that follow one another on a store that does not fail, an
\* item delivered in an earlier run is passed to no transport in a later run
C2_NoRedelivery ==
    (conn # "None" /\ ~store_failed) =>
        \A t \in Threads : attempted[t] \cap known[t] = {}

\* a later run lists an item delivered before, and notifies another one
C2_Witness ==
    /\ conn # "None"
    /\ ~store_failed
    /\ \E t \in Threads :
         /\ PostCheck(t)
         /\ \E k \in 1..Len(articles[t]) : articles[t][k].hash \in known[t]
         /\ attempted[t] # {}

\* C3: two runs that overlap never both notify the same fingerprint (the
\* store working)
C3_NoDoubleDelivery ==
    (conn # "None" /\ ~store_failed) =>
        \A t, u \in Threads :
            (/\ t # u
             /\ outcome[t].item # NoHash
             /\ outcome[t].item = outcome[u].item
             /\ Successes(t) # {})
            => Successes(u) = {}

\* C4: at most one run of process_new_articles is active at any time
C4_RunsSerialized ==
    Cardinality({t \in Threads : pc[t] # "idle"}) <= 1

\* C5: one run calls the transports for at most 3 items and adds at most 3
\* rows to the store
C5_BatchCap ==
    \A t \in Threads :
        /\ Cardinality(attempted[t]) <= 3
        /\ added[t] <= 3

\* a run found more than 3 new items, notified 3 and recorded 3
C5_Witness ==
    \E t \in Threads :
        /\ pc[t] = "returning"
        /\ Len(new_articles[t]) > 3
        /\ Cardinality(attempted[t]) = 3
        /\ added[t] = 3

\* C6: an item no transport succeeded for is not in the store, and a run
\* that lists it again reports it as new
C6_FailedStayNew ==
    /\ \A h \in undelivered : ~HasRow(sent_articles, h)
    /\ \A t \in Threads :
         PostCheck(t) =>
            \A k \in 1..Len(articles[t]) :
                articles[t][k].hash \in undelivered =>
                    \E j \in 1..Len(new_articles[t]) :
                        new_articles[t][j] = articles[t][k]

\* the second run is about to notify an item whose fan-out failed in the
\* first run, which has ended
C6_Witness ==
    \E t \in Threads :
        /\ pc[t] = "pushover"
        /\ runs = 2
        /\ \A u \in Threads \ {t} : pc[u] = "idle"
        /\ CurrentArticle(t).hash \in undelivered
        /\ CurrentArticle(t).hash \notin attempted[t]

\* the fan-out and the marking of the item of outcome[t] are over
ItemDone(t) ==
    /\ pc[t] \in {"pushover", "returning"}
    /\ outcome[t].item # NoHash
    /\ outcome[t].webhook # "pending"

PartialFailure(t) ==
    /\ outcome[t].pushover = "failed"
    /\ outcome[t].webhook = "success"

\* C7 as stated: when Pushover fails and the webhook succeeds, the item is
\* recorded
C7_PartialFailureRecorded ==
    \A t \in Threads :
        (ItemDone(t) /\ PartialFailure(t)) =>
            HasRow(sent_articles, outcome[t].item)

\* C7 amended: Pushover is decided before the webhook, a failed Pushover
\* does not keep the configured webhook from being called, and after a
\* failed Pushover and a successful webhook mark_article_sent is called for
\* the item, which is recorded when that call returns True
C7_PartialFailureMarked ==
    \A t \in Threads :
        /\ outcome[t].webhook # "pending" => outcome[t].pushover # "pending"
        /\ (pc[t] \in {"mark", "mark_locked"} /\ outcome[t].pushover = "failed"
               /\ webhook_url)
             => outcome[t].webhook \in {"success", "failed"}
        /\ (ItemDone(t) /\ PartialFailure(t)) =>
              /\ last_call[t].op = "mark_article_sent"
              /\ last_call[t].article_hash = outcome[t].item
              /\ last_call[t].returned => HasRow(sent_articles, outcome[t].item)

\* Pushover failed, the webhook succeeded and the item is in the store
C7_Witness ==
    \E t \in Threads :
        /\ ItemDone(t)
        /\ PartialFailure(t)
        /\ last_call[t].returned
        /\ HasRow(sent_articles, outcome[t].item)

RowsOf(rows, article_hash) == {r \in rows : r.article_hash = article_hash}

\* C8: a call of mark_article_sent that does not fail returns True and
\* leaves exactly one row for its fingerprint: the row that was there
\* before the call, if there was one
C8_MarkIdempotent ==
    [][\A t \in Threads :
          (/\ last_call'[t] # last_call[t]
           /\ last_call'[t].op = "mark_article_sent"
           /\ last_call'[t].failure = "none")
          => /\ last_call'[t].returned
             /\ Cardinality(RowsOf(sent_articles', last_call'[t].article_hash)) = 1
             /\ HasRow(sent_articles, last_call'[t].article_hash)
                   => sent_articles' = sent_articles]_vars

\* a run marked an item that had its row already: counted, nothing added
C8_Witness ==
    \E t \in Threads :
        /\ last_call[t].op = "mark_article_sent"
        /\ last_call[t].failure = "none"
        /\ notifications_sent[t] = 1
        /\ added[t] = 0
        /\ Cardinality(RowsOf(sent_articles, last_call[t].article_hash)) = 1

\* C9: a store operation that fails (or finds no connection) returns False
\* and leaves the rows as they were
C9_FailureLeavesStore ==
    [][\A t \in Threads :
          (/\ last_call'[t] # last_call[t]
           /\ last_call'[t].failure # "none")
          => /\ ~last_call'[t].returned
             /\ sent_articles' = sent_articles]_vars

\* C10 as stated: when ai_news.db cannot be created the monitor runs on an
\* in-memory store
C10_FallbackToMemory ==
    (init_pc \in {"attributes", "serving"} /\ persist_failed) => conn = "memory"

\* C10 amended: the construction ends without an error whatever fails; the
\* monitor then runs on ai_news.db, or after a failure to create it on an
\* in-memory store, or with no store when that fails too; in each case a
\* run can start and the store operations are accepted
C10_InitNeverFails ==
    /\ init_pc \in {"init_database", "fallback", "attributes", "serving"}
    /\ init_pc \in {"attributes", "serving"} =>
          IF persist_failed THEN conn \in {"memory", "None"} ELSE conn = "file"
    /\ news_monitor <=> init_pc = "serving"
    /\ \A t \in Threads :
          /\ pc[t] # "idle" => news_monitor
          /\ (init_pc = "serving" /\ pc[t] = "idle" /\ runs < MaxRuns)
                => ENABLED Trigger(t)
          /\ (pc[t] = "checking" /\ db_lock = "free")
                => ENABLED (IsSentNoConn(t) \/ IsSentLock(t))

\* after a failure to create ai_news.db a run has recorded an item
C10_Witness ==
    /\ persist_failed
    /\ sent_articles # {}
    /\ \E t \in Threads : /\ pc[t] = "returning"
                          /\ last_call[t].op = "mark_article_sent"
                          /\ last_call[t].returned

(***************************************************************************)
(* Properties of the run as a whole.                                        *)
(***************************************************************************)
InSeq(a, seq) == \E j \in 1..Len(seq) : seq[j] = a

HashesOf(seq) == {seq[j].hash : j \in 1..Len(seq)}

\* C11: no exception leaves process_new_articles, whatever fails and
\* whatever the loops or fetch_all_news raise: a run that is not waiting
\* for the lock has a next step, it ends by returning a list, the empty
\* list when nothing was fetched, and check_news answers 200
C11_RunNeverRaises ==
    /\ \A t \in Threads :
         /\ pc[t] \in {"idle", "fetching", "checking", "is_sent_locked",
                       "pushover", "webhook", "mark", "mark_locked",
                       "returning"}
         /\ (pc[t] \notin {"idle", "fetching"} /\ db_lock \in {"free", t})
               => ENABLED Proceed(t)
         /\ (pc[t] = "returning" /\ articles[t] = <<>>)
               => ReturnValue(new_articles[t]) = <<>>
    /\ http_response # NoResponse =>
          (http_response.status = 200 /\ http_response.success)

\* a run ends after a transport failure left an item undelivered, a store
\* operation raised and one of the loops caught an exception
C11_Witness ==
    \E t \in Threads :
        /\ pc[t] = "returning"
        /\ caught[t] # {}
        /\ store_failed
        /\ undelivered # {}

\* C12: a lookup that fails answers "not sent": its item is in
\* new_articles, an item is left out of new_articles only when the store has
\* its row, with no connection every fetched item is new, and the run goes
\* on to call the transports for the first 3 of the new items
C12_FailOpen ==
    \A t \in Threads :
        /\ (last_call[t].op = "is_article_sent" /\ last_call[t].failure # "none")
              => /\ ~last_call[t].returned
                 /\ last_call[t].article_hash \in HashesOf(new_articles[t])
        /\ PostCheck(t) =>
              /\ \A k \in 1..Len(articles[t]) :
                    InSeq(articles[t][k], new_articles[t])
                       \/ HasRow(sent_articles, articles[t][k].hash)
              /\ conn = "None" => new_articles[t] = articles[t]
        /\ (pc[t] = "returning" /\ ((pushover_token /\ pushover_user) \/ webhook_url))
              => attempted[t] = HashesOf(Batch(new_articles[t]))

\* after a lookup raised, a run has called a transport again for an item
\* that an earlier run delivered and recorded
C12_Witness ==
    \E t \in Threads :
        /\ pc[t] = "returning"
        /\ store_failed
        /\ \E h \in attempted[t] \cap known[t] : HasRow(sent_articles, h)

\* the run of t has fetched, and what the sources served is kept
PostFetch(t) == pc[t] \notin {"idle", "fetching"} /\ fetch_in[t] # NoFetch

\* the articles fetch_news_from_source finds in what source s serves
Served(t, s) ==
    ArticlesOf(s, Prefix(fetch_in[t].feed[s], EntriesPerSource))

\* C13: a source that fails contributes nothing, every article of every
\* other source is in the fetched list under its fingerprint, and the
\* fetched articles are looked up and the first 3 new ones notified
C13_SourceFailureIsolated ==
    \A t \in Threads :
        PostFetch(t) =>
            /\ \A s \in fetch_in[t].failed :
                  /\ fetch_news_from_source(s, fetch_in[t].feed[s], TRUE) = <<>>
                  /\ \A k \in 1..Len(articles[t]) : articles[t][k].source # s
            /\ \A s \in SourceNames \ fetch_in[t].failed :
                  HashesOf(Served(t, s)) \subseteq HashesOf(articles[t])
            /\ PostCheck(t) =>
                  \A k \in 1..Len(articles[t]) :
                      InSeq(articles[t][k], new_articles[t])
                         \/ HasRow(sent_articles, articles[t][k].hash)
            /\ pc[t] = "returning" =>
                  attempted[t] = HashesOf(Batch(new_articles[t]))

\* the first source failed and an article of the second one was delivered
C13_Witness ==
    \E t \in Threads :
        /\ PostFetch(t)
        /\ pc[t] = "returning"
        /\ fetch_in[t].failed = {"TechCrunch AI"}
        /\ \E k \in 1..Len(articles[t]) :
              /\ articles[t][k].source = "VentureBeat AI"
              /\ articles[t][k].hash \in attempted[t] \cap delivered

\* what the sources served to the run of t, in fetch order
AllArticles(t) == FetchSources(1, fetch_in[t].feed, fetch_in[t].failed)

\* C14: the fetched list has no two articles of one fingerprint, it has
\* every fingerprint that was served, each with the first article served
\* under it, and the run starts a fan-out only for a fingerprint it has
\* called no transport for
C14_OnePerFingerprint ==
    \A t \in Threads :
        /\ PostFetch(t) =>
              LET all == AllArticles(t)
              IN  /\ \A i, j \in 1..Len(articles[t]) :
                        articles[t][i].hash = articles[t][j].hash => i = j
                  /\ HashesOf(articles[t]) = HashesOf(all)
                  /\ \A k \in 1..Len(articles[t]) :
                        \E i \in 1..Len(all) :
                            /\ all[i] = articles[t][k]
                            /\ \A j \in 1..(i - 1) :
                                  all[j].hash # articles[t][k].hash
        /\ pc[t] = "pushover" => CurrentArticle(t).hash \notin attempted[t]

\* both sources served the same article and the run notified it once, as
\* the article of the first source
C14_Witness ==
    \E t \in Threads :
        /\ PostFetch(t)
        /\ pc[t] = "returning"
        /\ Len(AllArticles(t)) = 2
        /\ Len(articles[t]) = 1
        /\ articles[t][1].source = "TechCrunch AI"
        /\ attempted[t] = {articles[t][1].hash}

\* C15: the returned list has every fetched item the store has no row
\* for, also those beyond the first 3; the transports were called for the
\* first 3 of the list only; check_news answers its length
C15_ReturnsAllNew ==
    /\ [](\A t \in Threads :
            pc[t] = "returning" =>
               /\ \A k \in 1..Len(articles[t]) :
                     ~HasRow(sent_articles, articles[t][k].hash)
                        => InSeq(articles[t][k], ReturnValue(new_articles[t]))
               /\ \A j \in 1..Len(ReturnValue(new_articles[t])) :
                     InSeq(ReturnValue(new_articles[t])[j], articles[t])
               /\ attempted[t] \subseteq
                     HashesOf(Prefix(ReturnValue(new_articles[t]), 3)))
    /\ [][(pc["request"] = "returning" /\ pc'["request"] = "idle")
             => http_response' =
                   [status |-> 200, success |-> TRUE,
                    new_articles |-> Len(new_articles["request"])]]_vars

\* the first request was answered 4 new articles, and 3 were delivered
C15_Witness ==
    /\ runs = 1
    /\ http_response.new_articles = 4
    /\ Cardinality(delivered) = 3
    /\ Cardinality(StoredHashes) = 3

(***************************************************************************)
(* Properties of the order and of the fingerprints.                         *)
(***************************************************************************)
Digits == <<"0", "1", "2", "3", "4", "5", "6", "7", "8", "9">>

IsDigit(c) == \E k \in 1..Len(Digits) : Digits[k] = c

DigitOf(c) == (CHOOSE k \in 1..Len(Digits) : Digits[k] = c) - 1

\* the time a published string names, as the day of January 2024 it is on:
\* "2024-01-DD" or "Ddd, DD"; an article without one counts as of now
PublishedDay(published) ==
    IF published = <<>> THEN 1000
    ELSE IF IsDigit(published[1])
    THEN 10 * DigitOf(published[9]) + DigitOf(published[10])
    ELSE 10 * DigitOf(published[6]) + DigitOf(published[7])

\* C16: the fetched list, which the lookups and the notifications follow,
\* is in descending order of the published time, the articles without one
\* first; the first 3 new articles in that order are the ones notified
C16_RecencyOrder ==
    \A t \in Threads :
        /\ PostFetch(t) =>
              \A i, j \in 1..Len(articles[t]) :
                  i < j => PublishedDay(articles[t][i].published)
                              >= PublishedDay(articles[t][j].published)
        /\ (PostFetch(t) /\ pc[t] = "returning") =>
              attempted[t] = HashesOf(Batch(new_articles[t]))

\* C17: two served articles that differ in the title or in the url have
\* different fingerprints, so each of them is in the fetched list
C17_DistinctFingerprints ==
    \A t \in Threads :
        PostFetch(t) =>
            LET all == AllArticles(t)
            IN  \A i, j \in 1..Len(all) :
                    (all[i].title # all[j].title \/ all[i].url # all[j].url)
                       => /\ all[i].hash # all[j].hash
                          /\ InSeq(all[i], articles[t])
                          /\ InSeq(all[j], articles[t])

\* the entries the sources served to the run of t
EntriesOf(t) ==
    UNION {{fetch_in[t].feed[s][k] : k \in 1..Len(fetch_in[t].feed[s])}
              : s \in SourceNames}

\* C18: entries whose titles and links are equal once trimmed have the same
\* fingerprint, whatever their whitespace, summary, date and source; and an
\* article of a run has the fingerprint of the row a previous run stored
\* for its title and url
C18_FingerprintDeterministic ==
    \A t \in Threads :
        PostFetch(t) =>
            /\ \A e, f \in EntriesOf(t) :
                  (strip(e.title) = strip(f.title) /\ strip(e.link) = strip(f.link))
                     => get_article_hash(e.title, e.link)
                           = get_article_hash(f.title, f.link)
            /\ \A e \in EntriesOf(t) :
                  get_article_hash(e.title, e.link)
                     = get_article_hash(strip(e.title), strip(e.link))
            /\ \A r \in sent_articles : \A k \in 1..Len(articles[t]) :
                  (r.title = articles[t][k].title /\ r.url = articles[t][k].url)
                     => r.article_hash = articles[t][k].hash

\* a run found the row of an article that an earlier run had recorded from
\* the other source, where its entry has other whitespace, summary and date
C18_Witness ==
    \E t \in Threads :
        /\ PostFetch(t)
        /\ PostCheck(t)
        /\ \E r \in sent_articles : \E k \in 1..Len(articles[t]) :
              /\ r.article_hash = articles[t][k].hash
              /\ r.source # articles[t][k].source
              /\ ~InSeq(articles[t][k], new_articles[t])
        /\ \E e, f \in EntriesOf(t) :
              /\ e # f
              /\ e.title # f.title
              /\ strip(e.title) = strip(f.title)
              /\ strip(e.link) = strip(f.link)

\* the phases of a run, in the order of the state machine
Phase(p) ==
    CASE p = "idle" -> 0
      [] p = "fetching" -> 1
      [] p \in {"checking", "is_sent_locked"} -> 2
      [] p \in {"pushover", "webhook"} -> 3
      [] p \in {"mark", "mark_locked"} -> 4
      [] p = "returning" -> 5

\* C19: a run passes the phases in order, from the recording of an item
\* back to the delivery of the next; nothing is looked up before the fetch
\* has ended, no transport is called and nothing is recorded before the
\* lookups have ended, and an item is recorded only after a transport was
\* called for it
C19_PhaseOrder ==
    /\ [](\A t \in Threads :
            /\ pc[t] = "fetching" =>
                  (last_call[t] = NoCall /\ attempted[t] = {} /\ added[t] = 0)
            /\ pc[t] \in {"checking", "is_sent_locked"} =>
                  (/\ attempted[t] = {}
                   /\ added[t] = 0
                   /\ last_call[t].op # "mark_article_sent")
            /\ pc[t] = "mark_locked" => CurrentArticle(t).hash \in attempted[t]
            /\ last_call[t].op = "mark_article_sent" =>
                  last_call[t].article_hash \in attempted[t])
    /\ [][\A t \in Threads :
             \/ Phase(pc'[t]) >= Phase(pc[t])
             \/ (pc[t] = "returning" /\ pc'[t] = "idle")
             \/ (/\ pc[t] \in {"mark", "mark_locked"}
                 /\ pc'[t] = "pushover"
                 /\ idx'[t] = idx[t] + 1)]_vars

\* a run has recorded its first item and is at the delivery of the second
C19_Witness ==
    \E t \in Threads :
        /\ pc[t] = "webhook"
        /\ idx[t] = 2
        /\ added[t] = 1
        /\ Cardinality(attempted[t]) = 2

\* C20: every run that has started ends
C20_RunsComplete ==
    \A t \in Threads : (pc[t] = "fetching") ~> (pc[t] = "idle")

\* C21: an exception raised while an item is looked up or delivered is
\* caught at that item: the run records no row for it, every other fetched
\* article is still looked up, and every other article of the first 3 new
\* ones still has its transports called
C21_ItemFailureIsolated ==
    \A t \in Threads :
        /\ \A h \in caught[t] :
               ~\E r \in sent_articles : r.article_hash = h /\ r.sent_at = runs
        /\ PostCheck(t) =>
               \A k \in 1..Len(articles[t]) :
                   \/ InSeq(articles[t][k], new_articles[t])
                   \/ HasRow(sent_articles, articles[t][k].hash)
                   \/ articles[t][k].hash \in caught[t]
        /\ pc[t] = "returning" =>
               \A j \in 1..Len(Batch(new_articles[t])) :
                   Batch(new_articles[t])[j].hash \in attempted[t] \cup caught[t]

\* a run ends in which the delivery of one article raised after a transport
\* had a success, so that it has no row, and a later article of the batch
\* was delivered and recorded
C21_Witness ==
    \E t \in Threads :
        /\ pc[t] = "returning"
        /\ \E i, j \in 1..Len(Batch(new_articles[t])) :
              LET a == Batch(new_articles[t])[i].hash
                  b == Batch(new_articles[t])[j].hash
              IN  /\ i < j
                  /\ a \in caught[t] /\ a \in delivered
                  /\ ~HasRow(sent_articles, a)
                  /\ b \notin caught[t]
                  /\ \E r \in sent_articles :
                         r.article_hash = b /\ r.sent_at = runs


\* thread t is inside `with self._db_lock:` of a lookup or of an insert
InStore(t) == pc[t] \in {"is_sent_locked", "mark_locked"}

\* at most one thread is inside a store operation, and it holds the lock
MutuallyExclusive ==
    /\ \A t, u \in Threads : (InStore(t) /\ InStore(u)) => t = u
    /\ \A t \in Threads : InStore(t) <=> db_lock = t

\* a lookup of thread t ends in this step
LookupEnds(t) ==
    /\ last_call'[t] # last_call[t]
    /\ last_call'[t].op = "is_article_sent"

\* the last store call of thread u was a mark_article_sent of article_hash
\* that returned True
MarkedBy(u, article_hash) ==
    /\ last_call[u].op = "mark_article_sent"
    /\ last_call[u].returned
    /\ last_call[u].article_hash = article_hash

\* C22 as stated: store operations exclude one another, and a lookup that
\* ends after mark_article_sent returned True for its fingerprint answers
\* True
C22_MarkedAlwaysPresent ==
    /\ []MutuallyExclusive
    /\ [][\A t, u \in Threads :
            (LookupEnds(t) /\ MarkedBy(u, last_call'[t].article_hash))
                => last_call'[t].returned]_vars

\* C22, amended: store operations exclude one another; a mark_article_sent
\* that returned True leaves a row, no row is ever removed, and a lookup
\* that ends without raising answers whether the row is there, so it
\* answers True once mark_article_sent returned True for its fingerprint
C22_MarkedPresentUnlessLookupFails ==
    /\ []MutuallyExclusive
    /\ [](\A u \in Threads :
            (last_call[u].op = "mark_article_sent" /\ last_call[u].returned)
                => HasRow(sent_articles, last_call[u].article_hash))
    /\ [][/\ StoredHashes \subseteq {r.article_hash : r \in sent_articles'}
          /\ \A t \in Threads :
                (LookupEnds(t) /\ last_call'[t].failure = "none")
                    => (last_call'[t].returned <=>
                           HasRow(sent_articles, last_call'[t].article_hash))
          /\ \A t, u \in Threads :
                (/\ LookupEnds(t)
                 /\ last_call'[t].failure = "none"
                 /\ MarkedBy(u, last_call'[t].article_hash))
                    => last_call'[t].returned]_vars

\* a lookup of one thread answered True for the fingerprint the other
\* thread's mark_article_sent had just returned True for
C22_Witness ==
    \E t, u \in Threads :
        /\ t # u
        /\ last_call[t].op = "is_article_sent"
        /\ last_call[t].failure = "none"
        /\ last_call[t].returned
        /\ MarkedBy(u, last_call[t].article_hash)


\* C23: through runs, listings and test notifications no row is removed or
\* changed, so the fingerprints of the store only grow, and no two rows
\* have one fingerprint
C23_StoreOnlyGrows ==
    /\ [](\A r1, r2 \in sent_articles :
             r1.article_hash = r2.article_hash => r1 = r2)
    /\ [][/\ sent_articles \subseteq sent_articles'
          /\ StoredHashes \subseteq {r.article_hash : r \in sent_articles'}]_vars

\* a listing is served from a store that has rows of two runs
C23_Witness ==
    /\ listing.served
    /\ \E r1, r2 \in sent_articles : r1.sent_at # r2.sent_at
    /\ \E k \in 1..Len(listing.articles) : listing.articles[k].sent

\* C25: a Pushover call succeeds exactly when Pushover is configured and
\* the status is 200, a webhook call exactly when the webhook is configured
\* and the status is 200, 201, 202 or 204; any other status, an exception
\* or a timeout (status 0) and a transport that is not configured give no
\* success, and the handler goes on
C25_TransportClassification ==
    /\ test_result.served =>
          /\ test_result.pushover_called <=> (pushover_token /\ pushover_user)
          /\ test_result.webhook_called <=> webhook_url
          /\ test_result.pushover_ok <=>
                 (test_result.pushover_called /\ test_result.pushover = 200)
          /\ test_result.webhook_ok <=>
                 (/\ test_result.webhook_called
                  /\ test_result.webhook \in {200, 201, 202, 204})
          /\ test_result.success <=>
                 (test_result.pushover_ok \/ test_result.webhook_ok)
    /\ \A t \in Threads :
          /\ outcome[t].pushover = "success" => (pushover_token /\ pushover_user)
          /\ outcome[t].webhook = "success" => webhook_url

\* a test notification whose Pushover call was answered 500 and whose
\* webhook call was answered 204
C25_Witness ==
    /\ test_result.served
    /\ test_result.pushover_called /\ test_result.pushover = 500
    /\ ~test_result.pushover_ok
    /\ test_result.webhook = 204 /\ test_result.webhook_ok

\* C28: get_recent_articles calls no transport and writes no row, and
\* every article it returns has sent = what is_article_sent answered for it
\* (the row is there and the lookup did not fail); test_notification calls
\* the configured transports and writes no row
C28_ControlReadsOnly ==
    /\ [](listing.served =>
            \A k \in 1..Len(listing.articles) :
                listing.articles[k].sent <=>
                    (/\ listing.articles[k].failure = "none"
                     /\ HasRow(sent_articles, listing.articles[k].hash)))
    /\ [](test_result.served =>
            /\ test_result.pushover_called <=> (pushover_token /\ pushover_user)
            /\ test_result.webhook_called <=> webhook_url)
    /\ [][(listing' # listing \/ test_result' # test_result) =>
             /\ sent_articles' = sent_articles
             /\ delivered' = delivered
             /\ undelivered' = undelivered
             /\ attempted' = attempted]_vars

\* a listing with an article that is in the store and one that is not
C28_Witness ==
    /\ listing.served
    /\ \E j, k \in 1..Len(listing.articles) :
          /\ listing.articles[j].sent
          /\ ~listing.articles[k].sent
          /\ listing.articles[k].failure = "none"


\* some keyword occurs in the title, a space and the summary of the entry
\* (both trimmed), whatever the case of their letters
Mentions(entry) ==
    LET text == strip(entry.title) \o <<" ">> \o strip(entry.summary)
    IN  \E n \in 1..Len(ai_keywords), i \in 0..Len(text) :
            /\ i + Len(ai_keywords[n]) <= Len(text)
            /\ \A j \in 1..Len(ai_keywords[n]) :
                   LowerChar(text[i + j]) = ai_keywords[n][j]

\* the entries with a title and a link among the first 5 of the sources
\* that answered the run of t
ValidEntries(t) ==
    {e \in UNION {{fetch_in[t].feed[s][k] :
                      k \in 1..Len(Prefix(fetch_in[t].feed[s], EntriesPerSource))}
                     : s \in SourceNames \ fetch_in[t].failed} :
        strip(e.title) # <<>> /\ strip(e.link) # <<>>}

\* C24: an entry is among the fetched articles exactly when a keyword
\* occurs in its title and summary, in any case; an entry without a
\* keyword is not looked up, no transport is called for it and it has no
\* row
C24_RelevanceFilter ==
    \A t \in Threads :
        PostFetch(t) =>
            \A e \in ValidEntries(t) :
                LET h == get_article_hash(strip(e.title), strip(e.link))
                IN  /\ h \in HashesOf(articles[t]) <=> Mentions(e)
                    /\ ~Mentions(e) =>
                          /\ last_call[t].article_hash # h
                          /\ h \notin attempted[t]
                          /\ h \notin delivered
                          /\ ~HasRow(sent_articles, h)

\* a run ends that was served an entry without a keyword and an entry that
\* has a keyword in capitals, and called a transport for the second
C24_Witness ==
    \E t \in Threads :
        /\ PostFetch(t)
        /\ pc[t] = "returning"
        /\ \E e1, e2 \in ValidEntries(t) :
              /\ ~Mentions(e1)
              /\ Mentions(e2)
              /\ ~is_ai_related_cased(strip(e2.title), strip(e2.summary))
              /\ get_article_hash(strip(e2.title), strip(e2.link)) \in attempted[t]


\* the fingerprints of the new articles of t after the first 3
BeyondCap(t) ==
    {new_articles[t][j].hash : j \in (BatchCap + 1)..Len(new_articles[t])}

\* the articles ranked before position j that no transport ever had a
\* success for
FailingBefore(t, j) ==
    {i \in 1..(j - 1) : articles[t][i].hash \notin delivered}

\* the part of C26 on one run: the new articles are the fetched ones with
\* no row of an earlier run, those after the first 3 have no transport
\* called and no row, every one of the first 3 has its transports called,
\* and a run whose deliveries all succeeded leaves a row for each of them
CapKeepsBacklog ==
    \A t \in Threads :
        /\ PostCheck(t) =>
              /\ \A k \in 1..Len(articles[t]) :
                    InSeq(articles[t][k], new_articles[t]) <=>
                        ~\E r \in sent_articles :
                            /\ r.article_hash = articles[t][k].hash
                            /\ r.sent_at < runs
              /\ \A h \in BeyondCap(t) :
                    h \notin attempted[t] /\ ~HasRow(sent_articles, h)
        /\ pc[t] = "returning" =>
              /\ \A j \in 1..Len(Batch(new_articles[t])) :
                    Batch(new_articles[t])[j].hash \in attempted[t]
              /\ attempted[t] \cap undelivered = {} =>
                    \A j \in 1..Len(Batch(new_articles[t])) :
                        HasRow(sent_articles, Batch(new_articles[t])[j].hash)

\* when no delivery ever fails and every fetch ends, an article left after
\* the first 3 gets its row in a later run
BacklogDrains ==
    \/ <>(undelivered # {})
    \/ <>[](\E t \in Threads : pc[t] = "fetching")
    \/ \A h \in HashesOf(ArticlesOf("TechCrunch AI", <<E1, E2, E3, E4>>)) :
          (\E t \in Threads : PostCheck(t) /\ h \in BeyondCap(t))
              ~> (h \in delivered /\ HasRow(sent_articles, h))

\* C26 as stated: the cap keeps the backlog, the backlog drains when
\* nothing fails, and while an article of the first 3 has failed in every
\* run no article ranked after the first 3 is ever delivered
C26_FailingItemBlocks ==
    /\ []CapKeepsBacklog
    /\ BacklogDrains
    /\ [](\A t \in Threads :
            (pc[t] = "returning" /\ runs >= 2) =>
                \A i \in 1..Len(articles[t]), j \in 1..Len(articles[t]) :
                    (/\ i <= BatchCap /\ BatchCap < j
                     /\ articles[t][i].hash \in undelivered)
                        => articles[t][j].hash \notin delivered)

\* C26, amended: the cap keeps the backlog, the backlog drains when nothing
\* fails, and an article is delivered only when fewer than 3 articles
\* ranked before it have never been delivered: a failing article takes one
\* of the 3 places of every run, and 3 of them starve the rest
C26_BacklogDrain ==
    /\ []CapKeepsBacklog
    /\ BacklogDrains
    /\ [](\A t \in Threads :
            pc[t] \notin {"idle", "fetching"} =>
                \A j \in 1..Len(articles[t]) :
                    articles[t][j].hash \in delivered
                        => Cardinality(FailingBefore(t, j)) < BatchCap)

\* the second run ends: the article that was fourth is delivered and has
\* its row, while the first one failed in both runs
C26_Witness ==
    \E t \in Threads :
        /\ pc[t] = "returning"
        /\ runs >= 2
        /\ Len(articles[t]) > BatchCap
        /\ articles[t][1].hash \in undelivered \cap attempted[t]
        /\ articles[t][BatchCap + 1].hash \in delivered \cap attempted[t]
        /\ HasRow(sent_articles, articles[t][BatchCap + 1].hash)


\* a call of mark_article_sent by thread t ends in this step
MarkEnds(t) ==
    /\ last_call'[t] # last_call[t]
    /\ last_call'[t].op = "mark_article_sent"

\* C27: when mark_article_sent returns False for a delivered item that has
\* no row, the run goes on, the item is not counted as sent and it still
\* has no row, so that the next run that fetches it finds it new
C27_UnrecordedStaysAbsent ==
    [][\A t \in Threads :
          (/\ MarkEnds(t)
           /\ ~last_call'[t].returned
           /\ ~HasRow(sent_articles, last_call'[t].article_hash))
          => /\ last_call'[t].article_hash \in delivered
             /\ notifications_sent'[t] = notifications_sent[t]
             /\ pc'[t] \in {"pushover", "returning"}
             /\ ~HasRow(sent_articles', last_call'[t].article_hash)]_vars


\* C29: once started the scheduler thread stays in its loop, or waits to
\* enter it again after an error, and whenever it is in the loop with no
\* run of its own active it can trigger the next run
C29_SchedulerKeepsTicking ==
    /\ news_monitor => scheduler \in {"running", "waiting"}
    /\ (/\ news_monitor
        /\ scheduler # "waiting"
        /\ pc["scheduler"] = "idle"
        /\ runs < MaxRuns)
          => ENABLED SchedulerTick


\* C30: at most one AINewsMonitor is created in a process, also when the
\* request handlers initialise it lazily at the same time
C30_SingleMonitor == monitors <= 1


=============================================================================
